---- MODULE Spec2Model ----
(***************************************************************************)
(* Model of crates/gpui/src/scene.rs: the per-frame primitive store        *)
(* (Scene), its k-way batch merge (BatchIterator) and the path builder     *)
(* (Path); and of crates/assistant/src/prompt_library.rs: the library of   *)
(* prompts behind a reader-writer lock (PromptLibrary).                    *)
(*                                                                         *)
(* A Scene is a record with the fields of the struct; a BatchIterator is a *)
(* record with its seven start indices and the positions of its seven      *)
(* peekable cursors (the slices it borrows are read from the scene).       *)
(* Every method is an operator translated from its code, and every action  *)
(* is one call of a method.                                                *)
(*                                                                         *)
(* Coordinates are integers (the code's ScaledPixels are f32; no property  *)
(* checked here depends on rounding).  DrawOrder is u32 in the code; the   *)
(* model keeps the width as a parameter, DrawOrderBits, so that the        *)
(* largest representable order is a value the model reaches.               *)
(***************************************************************************)
EXTENDS Integers, Sequences, FiniteSets, TLC

\* ------------------------------------------------------------------ bounds

\* Largest number of primitives stored in one frame.
MaxPrims == 3

\* The order index hands out tokens from 0..MaxOrder and the largest
\* representable token, U32_MAX.
MaxOrder == 2

\* Width of DrawOrder in the model (32 in the code).
DrawOrderBits == 3

\* u32::MAX at the model's width.
U32_MAX == 2^DrawOrderBits - 1

\* ------------------------------------------------------- value types

\* Option<T>: None is the empty sequence and Some(v) the sequence of v alone.
None == <<>>

Some(v) == <<v>>

\* Option::unwrap
unwrap(option) == option[1]

\* Option::unwrap_or
unwrap_or(option, default) == IF option = None THEN default ELSE option[1]

\* The texture of the primitives and batches that have none.
NoTexture == "none"

\* enum PrimitiveKind, in declaration order.
PrimitiveKind ==
    <<"Shadow", "Quad", "Path", "Underline", "MonochromeSprite",
      "PolychromeSprite", "Surface">>

Kinds == {PrimitiveKind[i] : i \in 1..Len(PrimitiveKind)}

SpriteKinds == {"MonochromeSprite", "PolychromeSprite"}

\* The Ord of PrimitiveKind with the declaration read backwards.
KindRank_backwards(kind) ==
    CHOOSE i \in 1..Len(PrimitiveKind) :
        PrimitiveKind[Len(PrimitiveKind) + 1 - i] = kind

\* The derived Ord of PrimitiveKind: the position in the declaration.
KindRank(kind) == CHOOSE i \in 1..Len(PrimitiveKind) : PrimitiveKind[i] = kind

\* Atlas tiles carried by the sprites that are submitted.
AtlasTiles ==
    {[texture_id |-> "A", tile_id |-> 1], [texture_id |-> "B", tile_id |-> 0]}

NoTile == [texture_id |-> NoTexture, tile_id |-> 0]

Point(x, y) == [x |-> x, y |-> y]

Size(w, h) == [width |-> w, height |-> h]

Bounds(origin, size) == [origin |-> origin, size |-> size]

Max(a, b) == IF a >= b THEN a ELSE b

Min(a, b) == IF a <= b THEN a ELSE b

\* Bounds::lower_right
lower_right(b) == Point(b.origin.x + b.size.width, b.origin.y + b.size.height)

\* Bounds::intersect: the box between the larger upper-left corner and the
\* smaller lower-right corner; its size is negative when the boxes are apart.
intersect(a, b) ==
    LET upper_left == Point(Max(a.origin.x, b.origin.x), Max(a.origin.y, b.origin.y))
        lr == Point(Min(lower_right(a).x, lower_right(b).x),
                    Min(lower_right(a).y, lower_right(b).y))
    IN  Bounds(upper_left, Size(lr.x - upper_left.x, lr.y - upper_left.y))

\* The content mask every submitted primitive carries.
InputMask == [bounds |-> Bounds(Point(0, 0), Size(2, 2))]

\* The bounds submitted: cut by the mask to a smaller box, touching the mask
\* with zero width, touching it with zero height, and apart from it.
InputBounds ==
    { Bounds(Point(1, 1), Size(2, 2)),
      Bounds(Point(2, 0), Size(1, 1)),
      Bounds(Point(0, 2), Size(1, 1)),
      Bounds(Point(3, 3), Size(1, 1)) }

\* A primitive as submitted: order is DrawOrder::default() and a path's id
\* is PathId(0) (Path::new); push stamps both.
Primitive(kind, bounds, tile) ==
    [kind |-> kind, order |-> 0, bounds |-> bounds, content_mask |-> InputMask,
     tile |-> tile, id |-> 0]

\* The order field of a primitive as its caller leaves it: the default, or a
\* value of the caller's own (the field is public).
InputOrders == {0, 1}

Inputs ==
    LET made ==
          {Primitive(k, b, NoTile) : k \in Kinds \ SpriteKinds, b \in InputBounds}
          \cup {Primitive(k, b, t) :
                    k \in SpriteKinds, b \in InputBounds, t \in AtlasTiles}
    IN  {[primitive EXCEPT !.order = order] :
            primitive \in made, order \in InputOrders}

\* ------------------------------------------------- spatial order index

\* BoundsTree: the entries inserted in this frame, each with its token.
BoundsTree_default == {}

\* The tokens insert may answer with: any token not handed out in this frame.
BoundsTree_fresh(tree) ==
    ((0..MaxOrder) \cup {U32_MAX}) \ {e.order : e \in tree}

\* BoundsTree::insert, given the token it answers with.
BoundsTree_insert(tree, bounds, order) ==
    tree \cup {[bounds |-> bounds, order |-> order]}

\* BoundsTree::clear
BoundsTree_clear(tree) == {}

\* --------------------------------------------------------------- Scene

\* #[derive(Default)] struct Scene
Scene_default ==
    [primitives |-> <<>>, primitive_bounds |-> BoundsTree_default,
     shadows |-> <<>>, quads |-> <<>>, paths |-> <<>>, underlines |-> <<>>,
     monochrome_sprites |-> <<>>, polychrome_sprites |-> <<>>, surfaces |-> <<>>]

\* The field of Scene (and of BatchIterator) that holds the list of a kind.
ListField(kind) ==
    CASE kind = "Shadow" -> "shadows"
      [] kind = "Quad" -> "quads"
      [] kind = "Path" -> "paths"
      [] kind = "Underline" -> "underlines"
      [] kind = "MonochromeSprite" -> "monochrome_sprites"
      [] kind = "PolychromeSprite" -> "polychrome_sprites"
      [] kind = "Surface" -> "surfaces"

\* Scene::clear without its paths.clear().
Scene_clear_keeps_paths(s) ==
    [s EXCEPT !.primitives = <<>>,
              !.primitive_bounds = BoundsTree_clear(s.primitive_bounds),
              !.shadows = <<>>, !.quads = <<>>,
              !.underlines = <<>>, !.monochrome_sprites = <<>>,
              !.polychrome_sprites = <<>>, !.surfaces = <<>>]

\* Scene::clear without its primitive_bounds.clear().
Scene_clear_keeps_index(s) ==
    [s EXCEPT !.primitives = <<>>,
              !.paths = <<>>, !.shadows = <<>>, !.quads = <<>>,
              !.underlines = <<>>, !.monochrome_sprites = <<>>,
              !.polychrome_sprites = <<>>, !.surfaces = <<>>]

\* Scene::clear
Scene_clear(s) ==
    [s EXCEPT !.primitives = <<>>,
              !.primitive_bounds = BoundsTree_clear(s.primitive_bounds),
              !.paths = <<>>, !.shadows = <<>>, !.quads = <<>>,
              !.underlines = <<>>, !.monochrome_sprites = <<>>,
              !.polychrome_sprites = <<>>, !.surfaces = <<>>]

\* Scene::paths
Scene_paths(s) == s.paths

\* Scene::len
Scene_len(s) == Len(s.primitives)

\* The bounds push clips: primitive.bounds().intersect(&content_mask.bounds).
clipped_bounds(primitive) ==
    intersect(primitive.bounds, primitive.content_mask.bounds)

\* The early return of push without its test of the height.
clipped_away_width_only(primitive) ==
    clipped_bounds(primitive).size.width <= 0

\* The early return of push: nothing of the primitive is left by the mask.
clipped_away(primitive) ==
    \/ clipped_bounds(primitive).size.width <= 0
    \/ clipped_bounds(primitive).size.height <= 0

\* The primitive as push would store it if it left the caller's order.
stamp_keeps_order(s, primitive, order) ==
    IF primitive.kind = "Path"
    THEN [primitive EXCEPT !.id = Len(s.paths)]
    ELSE primitive

\* The primitive as push would store it if it left a path's id alone.
stamp_keeps_id(s, primitive, order) == [primitive EXCEPT !.order = order]

\* The primitive as push would store it if it stored the clipped bounds.
stamp_clipped(s, primitive, order) ==
    IF primitive.kind = "Path"
    THEN [primitive EXCEPT !.order = order, !.id = Len(s.paths),
                           !.bounds = clipped_bounds(primitive)]
    ELSE [primitive EXCEPT !.order = order,
                           !.bounds = clipped_bounds(primitive)]

\* The primitive as push stores it: the order is the token of the index, and
\* a path's id is the number of paths stored before it.
stamp(s, primitive, order) ==
    IF primitive.kind = "Path"
    THEN [primitive EXCEPT !.order = order, !.id = Len(s.paths)]
    ELSE [primitive EXCEPT !.order = order]

\* Scene::push that puts the primitive at the front of its list.
Scene_push_front(s, primitive, order) ==
    IF clipped_away(primitive)
    THEN s
    ELSE LET stored == stamp(s, primitive, order)
             field == ListField(primitive.kind)
         IN  [s EXCEPT
                !.primitive_bounds =
                    BoundsTree_insert(s.primitive_bounds,
                                      clipped_bounds(primitive), order),
                ![field] = <<stored>> \o s[field],
                !.primitives = Append(s.primitives, stored)]

\* Scene::push without its self.primitives.push(primitive).
Scene_push_list_only(s, primitive, order) ==
    IF clipped_away(primitive)
    THEN s
    ELSE LET stored == stamp(s, primitive, order)
             field == ListField(primitive.kind)
         IN  [s EXCEPT
                !.primitive_bounds =
                    BoundsTree_insert(s.primitive_bounds,
                                      clipped_bounds(primitive), order),
                ![field] = Append(s[field], stored)]

\* Scene::push, where order is the token primitive_bounds.insert answers with.
Scene_push(s, primitive, order) ==
    IF clipped_away(primitive)
    THEN s
    ELSE LET stored == stamp(s, primitive, order)
             field == ListField(primitive.kind)
         IN  [s EXCEPT
                !.primitive_bounds =
                    BoundsTree_insert(s.primitive_bounds,
                                      clipped_bounds(primitive), order),
                ![field] = Append(s[field], stored),
                !.primitives = Append(s.primitives, stored)]

\* Ord::cmp of the primitive structs if the sprites compared tile.tile_id
\* before order.
cmp_less_tile_first(a, b) ==
    IF a.kind \in SpriteKinds
    THEN \/ a.tile.tile_id < b.tile.tile_id
         \/ a.tile.tile_id = b.tile.tile_id /\ a.order < b.order
    ELSE a.order < b.order

\* Ord::cmp of the primitive structs, as "a is less than b": by order, and
\* for the two sprite structs by tile.tile_id when the orders are equal.
cmp_less(a, b) ==
    IF a.kind \in SpriteKinds
    THEN \/ a.order < b.order
         \/ a.order = b.order /\ a.tile.tile_id < b.tile.tile_id
    ELSE a.order < b.order

\* The arrangements of the elements of list at the positions idx that are
\* ascending by cmp.
RECURSIVE ascending(_, _)
ascending(list, idx) ==
    IF idx = {}
    THEN {<<>>}
    ELSE UNION { { <<list[m]>> \o rest : rest \in ascending(list, idx \ {m}) } :
                 m \in {i \in idx : \A j \in idx : ~cmp_less(list[j], list[i])} }

\* slice::sort_unstable: a sorted permutation; elements that compare equal
\* may end in any order.
sort_unstable(list) == ascending(list, DOMAIN list)

\* Scene::finish: the scenes it may leave.
Scene_finish(s) ==
    { [s EXCEPT !.shadows = sh, !.quads = qu, !.paths = pa, !.underlines = un,
                !.monochrome_sprites = mo, !.polychrome_sprites = po,
                !.surfaces = su] :
      sh \in sort_unstable(s.shadows), qu \in sort_unstable(s.quads),
      pa \in sort_unstable(s.paths), un \in sort_unstable(s.underlines),
      mo \in sort_unstable(s.monochrome_sprites),
      po \in sort_unstable(s.polychrome_sprites),
      su \in sort_unstable(s.surfaces) }

\* ------------------------------------------------------- BatchIterator

StartField(kind) ==
    CASE kind = "Shadow" -> "shadows_start"
      [] kind = "Quad" -> "quads_start"
      [] kind = "Path" -> "paths_start"
      [] kind = "Underline" -> "underlines_start"
      [] kind = "MonochromeSprite" -> "monochrome_sprites_start"
      [] kind = "PolychromeSprite" -> "polychrome_sprites_start"
      [] kind = "Surface" -> "surfaces_start"

\* The peekable cursor of a kind: the number of elements it has yielded.
IterField(kind) ==
    CASE kind = "Shadow" -> "shadows_iter"
      [] kind = "Quad" -> "quads_iter"
      [] kind = "Path" -> "paths_iter"
      [] kind = "Underline" -> "underlines_iter"
      [] kind = "MonochromeSprite" -> "monochrome_sprites_iter"
      [] kind = "PolychromeSprite" -> "polychrome_sprites_iter"
      [] kind = "Surface" -> "surfaces_iter"

\* Scene::batches: every start index 0, every cursor at the front.
Scene_batches(s) ==
    [shadows_start |-> 0, shadows_iter |-> 0,
     quads_start |-> 0, quads_iter |-> 0,
     paths_start |-> 0, paths_iter |-> 0,
     underlines_start |-> 0, underlines_iter |-> 0,
     monochrome_sprites_start |-> 0, monochrome_sprites_iter |-> 0,
     polychrome_sprites_start |-> 0, polychrome_sprites_iter |-> 0,
     surfaces_start |-> 0, surfaces_iter |-> 0]

\* Peekable::peek on the cursor of a kind: the next element, or None.
peek(it, s, kind) ==
    LET list == s[ListField(kind)]
        pos == it[IterField(kind)]
    IN  IF pos < Len(list) THEN Some(list[pos + 1]) ELSE None

\* peek().map(|p| p.order)
peek_order(it, s, kind) ==
    IF peek(it, s, kind) = None THEN None ELSE Some(unwrap(peek(it, s, kind)).order)

\* Iterator::next on a cursor: its position afterwards.
iter_next(list, pos) == IF pos < Len(list) THEN pos + 1 ELSE pos

\* The key of sort_by_key with unwrap_or_default() for unwrap_or(u32::MAX).
sort_key_default(order_and_kind) ==
    <<unwrap_or(order_and_kind[1], 0), order_and_kind[2]>>

\* The key of sort_by_key: (order.unwrap_or(u32::MAX), kind).
sort_key(order_and_kind) ==
    <<unwrap_or(order_and_kind[1], U32_MAX), order_and_kind[2]>>

\* The tuple order of (DrawOrder, PrimitiveKind).
tuple_less(a, b) ==
    \/ a[1] < b[1]
    \/ a[1] = b[1] /\ KindRank(a[2]) < KindRank(b[2])

\* slice::sort_by_key with the key sort_key: the element at place n is the
\* one with n - 1 keys below its own (the keys differ in their kinds, so the
\* sorted array is unique).
sort_by_key(array) ==
    LET place(i) == 1 + Cardinality({j \in DOMAIN array :
                        tuple_less(sort_key(array[j]), sort_key(array[i]))})
    IN  [n \in DOMAIN array |-> array[CHOOSE i \in DOMAIN array : place(i) = n]]

\* orders_and_kinds, sorted.
orders_and_kinds(it, s) ==
    sort_by_key(<<
        <<peek_order(it, s, "Shadow"), "Shadow">>,
        <<peek_order(it, s, "Quad"), "Quad">>,
        <<peek_order(it, s, "Path"), "Path">>,
        <<peek_order(it, s, "Underline"), "Underline">>,
        <<peek_order(it, s, "MonochromeSprite"), "MonochromeSprite">>,
        <<peek_order(it, s, "PolychromeSprite"), "PolychromeSprite">>,
        <<peek_order(it, s, "Surface"), "Surface">> >>)

\* max_order_and_kind taken from the last of the sorted heads.
max_order_and_kind_last(it, s) ==
    LET last == orders_and_kinds(it, s)[Len(PrimitiveKind)]
    IN  <<unwrap_or(last[1], U32_MAX), last[2]>>

\* max_order_and_kind taken from the first of the sorted heads.
max_order_and_kind_first(it, s) ==
    LET first == orders_and_kinds(it, s)[1]
    IN  <<unwrap_or(first[1], U32_MAX), first[2]>>

\* max_order_and_kind taken from the third of the sorted heads.
max_order_and_kind_third(it, s) == sort_key(orders_and_kinds(it, s)[3])

\* max_order_and_kind: (second.0.unwrap_or(u32::MAX), second.1)
max_order_and_kind(it, s) == sort_key(orders_and_kinds(it, s)[2])

\* The condition of next_if without its comparison of the texture ids.
next_if_any_texture(element, batch_kind, max, texture_id) ==
    tuple_less(<<element.order, batch_kind>>, max)

\* The condition of next_if in the loop of a batch of batch_kind whose first
\* element has texture_id (NoTexture for the kinds without a texture).
next_if(element, batch_kind, max, texture_id) ==
    /\ tuple_less(<<element.order, batch_kind>>, max)
    /\ batch_kind \in SpriteKinds => element.tile.texture_id = texture_id

\* The loop of a batch that is never entered.
while_next_if_never(list, pos, batch_kind, max, texture_id) == pos

\* The while loop of a batch: the cursor position when next_if fails.
RECURSIVE while_next_if(_, _, _, _, _)
while_next_if(list, pos, batch_kind, max, texture_id) ==
    IF pos < Len(list) /\ next_if(list[pos + 1], batch_kind, max, texture_id)
    THEN while_next_if(list, pos + 1, batch_kind, max, texture_id)
    ELSE pos

\* &list[start..end]
slice(list, start, end) == SubSeq(list, start + 1, end)

\* One arm of the match on batch_kind with next() for next_if: the cursor
\* also passes the element that ends the batch.
batch_arm_advances(it, s, batch_kind, max) ==
    LET list == s[ListField(batch_kind)]
        texture_id == IF batch_kind \in SpriteKinds
                      THEN unwrap(peek(it, s, batch_kind)).tile.texture_id
                      ELSE NoTexture
        start == it[StartField(batch_kind)]
        first_pos == iter_next(list, it[IterField(batch_kind)])
        last_pos == while_next_if(list, first_pos, batch_kind, max, texture_id)
        end == start + 1 + (last_pos - first_pos)
    IN  [batch |-> Some([kind |-> batch_kind, texture_id |-> texture_id,
                         start |-> start, end |-> end,
                         items |-> slice(list, start, end)]),
         it |-> [it EXCEPT ![StartField(batch_kind)] = end,
                           ![IterField(batch_kind)] = iter_next(list, last_pos)]]

\* One arm of the match on batch_kind without its self.*_start = *_end.
batch_arm_keeps_start(it, s, batch_kind, max) ==
    LET list == s[ListField(batch_kind)]
        texture_id == IF batch_kind \in SpriteKinds
                      THEN unwrap(peek(it, s, batch_kind)).tile.texture_id
                      ELSE NoTexture
        start == it[StartField(batch_kind)]
        first_pos == iter_next(list, it[IterField(batch_kind)])
        last_pos == while_next_if(list, first_pos, batch_kind, max, texture_id)
        end == start + 1 + (last_pos - first_pos)
    IN  [batch |-> Some([kind |-> batch_kind, texture_id |-> texture_id,
                         start |-> start, end |-> end,
                         items |-> slice(list, start, end)]),
         it |-> [it EXCEPT ![IterField(batch_kind)] = last_pos]]

\* One arm of the match on batch_kind: the batch and the iterator after it.
batch_arm(it, s, batch_kind, max) ==
    LET list == s[ListField(batch_kind)]
        texture_id == IF batch_kind \in SpriteKinds
                      THEN unwrap(peek(it, s, batch_kind)).tile.texture_id
                      ELSE NoTexture
        start == it[StartField(batch_kind)]
        first_pos == iter_next(list, it[IterField(batch_kind)])
        last_pos == while_next_if(list, first_pos, batch_kind, max, texture_id)
        end == start + 1 + (last_pos - first_pos)
    IN  [batch |-> Some([kind |-> batch_kind, texture_id |-> texture_id,
                         start |-> start, end |-> end,
                         items |-> slice(list, start, end)]),
         it |-> [it EXCEPT ![StartField(batch_kind)] = end,
                           ![IterField(batch_kind)] = last_pos]]

\* BatchIterator::next: None when the first of the sorted heads is None.
BatchIterator_next(it, s) ==
    LET first == orders_and_kinds(it, s)[1]
    IN  IF first[1] # None
        THEN batch_arm(it, s, first[2], max_order_and_kind(it, s))
        ELSE [batch |-> None, it |-> it]

\* ---------------------------------------------------------------- Path
\* The path builder works on Path<Pixels>; its coordinates are integers here.
\* The st coordinates (f32 in the code) are kept in units of 1 / StOne, so
\* that 0.5 is a value of the model.

\* Largest number of line_to and curve_to calls made on one path.
MaxCalls == 3

\* The st value 1.0.
StOne == 2

\* point(x, y)
point(x, y) == Point(x, y)

\* The points a caller passes as to and ctrl.
PathPoints == {Point(0, 0), Point(2, 1), Point(1, 3)}

\* The points a caller passes to Path::new.
PathStarts == {Point(0, 0), Point(2, 1)}

\* The factors a caller passes to scale.
ScaleFactors == {0, 3}

\* ContentMask::default() and Size::default()
ContentMask_default == [bounds |-> Bounds(Point(0, 0), Size(0, 0))]

\* Hsla::default()
Hsla_default == "transparent"

\* Bounds::union: the smallest box that holds both.
union(a, b) ==
    LET origin == Point(Min(a.origin.x, b.origin.x), Min(a.origin.y, b.origin.y))
        lr == Point(Max(lower_right(a).x, lower_right(b).x),
                    Max(lower_right(a).y, lower_right(b).y))
    IN  Bounds(origin, Size(lr.x - origin.x, lr.y - origin.y))

\* Point::scale, Size::scale, Bounds::scale and ContentMask::scale
Point_scale(p, factor) == Point(p.x * factor, p.y * factor)

Size_scale(size, factor) == Size(size.width * factor, size.height * factor)

Bounds_scale(b, factor) ==
    Bounds(Point_scale(b.origin, factor), Size_scale(b.size, factor))

ContentMask_scale(mask, factor) == [bounds |-> Bounds_scale(mask.bounds, factor)]

\* Path::new
Path_new(start) ==
    [id |-> 0, order |-> 0, vertices |-> <<>>, start |-> start,
     current |-> start, bounds |-> Bounds(start, Size(0, 0)),
     content_mask |-> ContentMask_default, color |-> Hsla_default,
     contour_count |-> 0]

\* PathVertex { xy_position, st_position, content_mask: Default::default() }
PathVertex(xy, st) ==
    [xy_position |-> xy, st_position |-> st, content_mask |-> ContentMask_default]

\* Path::push_triangle that pushes the first two vertices only.
push_triangle_two_vertices(p, xy, st) ==
    [p EXCEPT
        !.bounds = union(union(union(p.bounds, Bounds(xy[1], Size(0, 0))),
                               Bounds(xy[2], Size(0, 0))),
                         Bounds(xy[3], Size(0, 0))),
        !.vertices = p.vertices
                        \o <<PathVertex(xy[1], st[1]), PathVertex(xy[2], st[2])>>]

\* Path::push_triangle without the union with the box of the third point.
push_triangle_two_unions(p, xy, st) ==
    [p EXCEPT
        !.bounds = union(union(p.bounds, Bounds(xy[1], Size(0, 0))),
                         Bounds(xy[2], Size(0, 0))),
        !.vertices = p.vertices
                        \o <<PathVertex(xy[1], st[1]), PathVertex(xy[2], st[2]),
                             PathVertex(xy[3], st[3])>>]

\* Path::push_triangle
push_triangle(p, xy, st) ==
    [p EXCEPT
        !.bounds = union(union(union(p.bounds, Bounds(xy[1], Size(0, 0))),
                               Bounds(xy[2], Size(0, 0))),
                         Bounds(xy[3], Size(0, 0))),
        !.vertices = p.vertices
                        \o <<PathVertex(xy[1], st[1]), PathVertex(xy[2], st[2]),
                             PathVertex(xy[3], st[3])>>]

\* The fan triangle of line_to and curve_to: pushed when contour_count > 1.
fan_triangle(p, to) ==
    IF p.contour_count > 1
    THEN push_triangle(p, <<p.start, p.current, to>>,
                       <<point(0, StOne), point(0, StOne), point(0, StOne)>>)
    ELSE p

\* Path::line_to without its self.current = to.
Path_line_to_keeps_current(p, to) ==
    LET counted == [p EXCEPT !.contour_count = p.contour_count + 1]
    IN  fan_triangle(counted, to)

\* Path::line_to
Path_line_to(p, to) ==
    LET counted == [p EXCEPT !.contour_count = p.contour_count + 1]
        fanned == fan_triangle(counted, to)
    IN  [fanned EXCEPT !.current = to]

\* Path::curve_to
Path_curve_to(p, to, ctrl) ==
    LET counted == [p EXCEPT !.contour_count = p.contour_count + 1]
        fanned == fan_triangle(counted, to)
        curved == push_triangle(fanned, <<fanned.current, ctrl, to>>,
                                <<point(0, 0), point(StOne \div 2, 0),
                                  point(StOne, StOne)>>)
    IN  [curved EXCEPT !.current = to]

\* PathVertex::scale
PathVertex_scale(vertex, factor) ==
    [xy_position |-> Point_scale(vertex.xy_position, factor),
     st_position |-> vertex.st_position,
     content_mask |-> ContentMask_scale(vertex.content_mask, factor)]

\* Path::scale that leaves the vertices as they are.
Path_scale_keeps_vertices(p, factor) ==
    [id |-> p.id, order |-> p.order,
     bounds |-> Bounds_scale(p.bounds, factor),
     content_mask |-> ContentMask_scale(p.content_mask, factor),
     vertices |-> p.vertices,
     start |-> Point_scale(p.start, factor),
     current |-> Point_scale(p.current, factor),
     contour_count |-> p.contour_count, color |-> p.color]

\* Path::scale
Path_scale(p, factor) ==
    [id |-> p.id, order |-> p.order,
     bounds |-> Bounds_scale(p.bounds, factor),
     content_mask |-> ContentMask_scale(p.content_mask, factor),
     vertices |-> [i \in DOMAIN p.vertices |->
                        PathVertex_scale(p.vertices[i], factor)],
     start |-> Point_scale(p.start, factor),
     current |-> Point_scale(p.current, factor),
     contour_count |-> p.contour_count, color |-> p.color]

\* ------------------------------------------------------- PromptLibrary
\* crates/assistant/src/prompt_library.rs.  The state of the library lies
\* in a parking_lot RwLock.  A thread that calls write() takes the writer
\* bit and then waits until the readers have left; read() waits while the
\* writer bit is taken, whether the writer has entered or is still waiting.

\* Largest value of version that is reached.
MaxVersion == 4

\* Largest length of the list given to add_prompts_to_default.
MaxIdList == 2

\* The ids load_prompts gives the prompts it finds (uuid::Uuid::new_v4()).
PromptIds == {"p1", "p2"}

\* An id that is the key of no prompt.
UnknownId == "px"

\* The lists of ids a caller passes to add_prompts_to_default.
IdLists == UNION {[1..n -> PromptIds \cup {UnknownId}] : n \in 0..MaxIdList}

\* struct UserPrompt, as UserPrompt::list reads it from the file of id.
UserPrompt(id) ==
    [metadata |-> [title |-> <<"title", id>>, author |-> "author",
                   languages |-> None],
     content |-> <<"content", id>>]

\* The separator of join_default_prompts.
Separator == "\n\n---\n\n"

\* Vec::contains
contains(list, x) == \E i \in DOMAIN list : list[i] = x

\* HashMap::contains_key
contains_key(map, key) == key \in DOMAIN map

\* HashMap::extend
extend(map, entries) ==
    [key \in DOMAIN map \cup DOMAIN entries |->
        IF key \in DOMAIN entries THEN entries[key] ELSE map[key]]

\* The sequences prompts.keys() may yield: the keys in any order.
keys(map) ==
    {order \in [1..Cardinality(DOMAIN map) -> DOMAIN map] :
        \A i, j \in DOMAIN order : i # j => order[i] # order[j]}

\* [String]::join
RECURSIVE join(_, _)
join(list, sep) ==
    IF Len(list) = 0 THEN <<>>
    ELSE IF Len(list) = 1 THEN <<list[1]>>
    ELSE <<list[1], sep>> \o join(Tail(list), sep)

\* PromptLibrary::new: the state in the lock.
PromptLibrary_new ==
    [system_prompt |-> "", prompts |-> <<>>, default_prompts |-> <<>>,
     enabled_prompts |-> <<>>, updateable_prompts |-> <<>>,
     revertable_prompts |-> <<>>, version |-> 0]

\* PromptLibrary::load_prompts, the files found getting the ids loaded.
PromptLibrary_load_prompts(state, loaded) ==
    [state EXCEPT
        !.prompts = extend(state.prompts, [id \in loaded |-> UserPrompt(id)]),
        !.version = state.version + 1]

\* PromptLibrary::init: the states it may leave in the lock.
PromptLibrary_init(loaded) ==
    LET state == PromptLibrary_load_prompts(PromptLibrary_new, loaded)
    IN  {[state EXCEPT !.default_prompts = order] : order \in keys(state.prompts)}

\* PromptLibrary::add_prompts_to_default, under the write lock.
PromptLibrary_add_prompts_to_default(state, prompt_ids) ==
    LET ids_to_add ==
          SelectSeq(prompt_ids,
                    LAMBDA id : /\ ~contains(state.default_prompts, id)
                                /\ contains_key(state.prompts, id))
    IN  [state EXCEPT !.default_prompts = state.default_prompts \o ids_to_add,
                      !.version = state.version + 1]

\* PromptLibrary::add_prompt_to_default, under the write lock.
PromptLibrary_add_prompt_to_default(state, prompt_id) ==
    IF /\ ~contains(state.default_prompts, prompt_id)
       /\ contains_key(state.prompts, prompt_id)
    THEN [state EXCEPT !.default_prompts = Append(state.default_prompts, prompt_id),
                       !.version = state.version + 1]
    ELSE state

\* PromptLibrary::remove_prompt_from_default, under the write lock.
PromptLibrary_remove_prompt_from_default(state, prompt_id) ==
    [state EXCEPT
        !.default_prompts = SelectSeq(state.default_prompts,
                                      LAMBDA id : id # prompt_id),
        !.version = state.version + 1]

\* PromptLibrary::join_default_prompts, under its read lock.
PromptLibrary_join_default_prompts(state) ==
    LET active_prompt_ids == state.default_prompts
        found == SelectSeq(active_prompt_ids,
                           LAMBDA id : contains_key(state.prompts, id))
    IN  join([i \in DOMAIN found |-> state.prompts[found[i]].content], Separator)

\* RwLock::new
RwLock_new == [writer |-> None, readers |-> 0]

\* RwLock::read goes on when no thread has the writer bit.
RwLock_can_read(l) == l.writer = None

\* RwLock::read
RwLock_read(l) == [l EXCEPT !.readers = l.readers + 1]

\* The drop of a read guard.
RwLock_drop_read(l) == [l EXCEPT !.readers = l.readers - 1]

\* RwLock::write takes the writer bit when no other thread has it.
RwLock_can_write(l) == l.writer = None

\* RwLock::write, the writer bit taken by thread.
RwLock_write(l, thread) == [l EXCEPT !.writer = Some(thread)]

\* RwLock::write returns to thread when the readers have left.
RwLock_entered(l, thread) == l.writer = Some(thread) /\ l.readers = 0

\* The drop of the write guard.
RwLock_drop_write(l) == [l EXCEPT !.writer = None]

\* ------------------------------------------------------ state machine

VARIABLES
    scene,      \* the Scene
    iter,       \* Some(BatchIterator) while one borrows the scene, else None
    emitted,    \* the batches the iterator has yielded, in emission order
    pc,         \* the caller's place in the frame:
                \* "building", "finished", "draining" or "drained"
    last_call,  \* the last call made: its name, and for clear the len() before
    survivors,  \* pushes since construction or clear() whose bounds, cut by
                \* the content mask, had positive width and height
    submitted,  \* Some(the argument of the last call, when it was a push that
                \* was stored), else None
    path,       \* Some(the Path<Pixels> under construction), else None
    scaled,     \* Some(the Path<ScaledPixels> the last call of scale returned)
    calls,      \* the line_to and curve_to calls made on path, in sequence
    start_arg,  \* Some(the point given to Path::new), else None
    library,    \* Some(the PromptLibraryState in the lock), None before init
    lock,       \* the RwLock of the library
    reader,     \* the place of the thread that calls default_prompt():
                \* "idle", "reading" (it holds the guard of default_prompt)
                \* or "joining" (it holds the guard of join_default_prompts
                \* as well)
    writers,    \* for each writing thread Some(the call it is in), else None
    prompt      \* Some(what the last call of default_prompt() returned)

scene_vars == <<scene, iter, emitted, pc, last_call, survivors, submitted>>

path_vars == <<path, scaled, calls, start_arg>>

prompt_vars == <<library, lock, reader, writers, prompt>>

vars == <<scene, iter, emitted, pc, last_call, survivors, submitted,
          path, scaled, calls, start_arg,
          library, lock, reader, writers, prompt>>

Call(op, n) == [op |-> op, n |-> n]

\* The threads that call the writing operations of the library.
Writers == {"w1", "w2"}

\* What the caller can tell of a primitive before it submits it: the mask
\* leaves a box of positive width and height.
survives(primitive) ==
    LET box == intersect(primitive.bounds, primitive.content_mask.bounds)
    IN  box.size.width > 0 /\ box.size.height > 0

Init ==
    /\ scene = Scene_default
    /\ iter = None
    /\ emitted = <<>>
    /\ pc = "building"
    /\ last_call = Call("default", 0)
    /\ survivors = 0
    /\ submitted = None
    /\ path = None
    /\ scaled = None
    /\ calls = <<>>
    /\ start_arg = None
    /\ library = None
    /\ lock = RwLock_new
    /\ reader = "idle"
    /\ writers = [thread \in Writers |-> None]
    /\ prompt = None

\* scene.push(primitive), the index answering with one of the tokens orders.
\* A push while an iterator borrows the scene does not compile.
PushWith(primitive, orders) ==
    /\ pc \in {"building", "finished"}
    /\ scene' \in {Scene_push(scene, primitive, order) : order \in orders}
    /\ pc' = IF scene' = scene THEN pc ELSE "building"
    /\ last_call' = Call(IF survives(primitive) THEN "push" ELSE "push_dropped", 0)
    /\ survivors' = IF survives(primitive) THEN survivors + 1 ELSE survivors
    /\ submitted' = IF survives(primitive) THEN Some(primitive) ELSE None
    /\ UNCHANGED <<iter, emitted>>
    /\ UNCHANGED path_vars
    /\ UNCHANGED prompt_vars

\* scene.push(primitive): the index answers with a token of its choice.
Push(primitive) ==
    /\ Scene_len(scene) < MaxPrims
    /\ PushWith(primitive, BoundsTree_fresh(scene.primitive_bounds))

\* scene.finish()
Finish ==
    /\ pc \in {"building", "finished"}
    /\ scene' \in Scene_finish(scene)
    /\ pc' = "finished"
    /\ last_call' = Call("finish", 0)
    /\ submitted' = None
    /\ UNCHANGED <<iter, emitted, survivors>>
    /\ UNCHANGED path_vars
    /\ UNCHANGED prompt_vars

\* scene.batches(), after finish()
Batches ==
    /\ pc = "finished"
    /\ iter' = Some(Scene_batches(scene))
    /\ emitted' = <<>>
    /\ pc' = "draining"
    /\ last_call' = Call("batches", 0)
    /\ submitted' = None
    /\ UNCHANGED <<scene, survivors>>
    /\ UNCHANGED path_vars
    /\ UNCHANGED prompt_vars

\* One call of next() on the iterator; the caller stops at the first None.
IterNext ==
    /\ pc = "draining"
    /\ LET result == BatchIterator_next(unwrap(iter), scene)
       IN  /\ iter' = Some(result.it)
           /\ IF result.batch = None
              THEN pc' = "drained" /\ emitted' = emitted
              ELSE pc' = pc /\ emitted' = Append(emitted, unwrap(result.batch))
    /\ last_call' = Call("next", 0)
    /\ submitted' = None
    /\ UNCHANGED <<scene, survivors>>
    /\ UNCHANGED path_vars
    /\ UNCHANGED prompt_vars

\* scene.clear(); the iterator, if any, has been dropped.
Clear ==
    /\ scene' = Scene_clear(scene)
    /\ iter' = None
    /\ emitted' = <<>>
    /\ pc' = "building"
    /\ last_call' = Call("clear", Scene_len(scene))
    /\ survivors' = 0
    /\ submitted' = None
    /\ UNCHANGED path_vars
    /\ UNCHANGED prompt_vars

Next ==
    \/ \E primitive \in Inputs : Push(primitive)
    \/ Finish
    \/ Batches
    \/ IterNext
    \/ Clear

Spec == Init /\ [][Next]_vars

\* ------------------------------------------------------------ scenario
\* The frame of the spec's scenario: three sprites of one sprite kind with
\* the textures a, a, b at the orders 1, 2, 4 and one Quad at the order 3,
\* pushed in any sequence; the index answers with the scenario's orders.

ScenarioOrders == {1, 2, 3, 4}

\* The stored sprites, whatever their list.
StoredSprites(s) ==
    {s.monochrome_sprites[i] : i \in DOMAIN s.monochrome_sprites}
    \cup {s.polychrome_sprites[i] : i \in DOMAIN s.polychrome_sprites}

\* primitive may be stored at order in the scenario's frame.
FitsScenario(s, primitive, order) ==
    /\ survives(primitive)
    /\ order \in ScenarioOrders \ {e.order : e \in s.primitive_bounds}
    /\ IF order = 3
       THEN primitive.kind = "Quad"
       ELSE /\ primitive.kind \in SpriteKinds
            /\ \A sprite \in StoredSprites(s) :
                  /\ sprite.kind = primitive.kind
                  /\ (sprite.tile.texture_id = primitive.tile.texture_id)
                        <=> ((sprite.order = 4) <=> (order = 4))

ScenarioPush(primitive, order) ==
    /\ FitsScenario(scene, primitive, order)
    /\ PushWith(primitive, {order})

NextScenario ==
    \/ \E primitive \in Inputs, order \in ScenarioOrders :
          ScenarioPush(primitive, order)
    \/ Finish
    \/ Batches
    \/ IterNext
    \/ Clear

SpecScenario == Init /\ [][NextScenario]_vars

\* ---------------------------------------------------------- equal orders
\* Frames in which the order index answers with a token it has answered with
\* before, so that stored primitives have equal orders (the merge and the
\* sort have to handle them), and in which a texture has several tiles.

\* The largest token below U32_MAX that the index answers with here.
MaxTiedOrder == 1

\* The tokens insert may answer with when tokens may repeat.
BoundsTree_any(tree) == (0..MaxTiedOrder) \cup {U32_MAX}

\* Atlas tiles of two textures; the tile ids of the one lie on both sides of
\* the tile id of the other.
TiedAtlasTiles ==
    {[texture_id |-> "A", tile_id |-> 1], [texture_id |-> "B", tile_id |-> 2],
     [texture_id |-> "A", tile_id |-> 3]}

\* The primitives submitted: they all survive clipping.
TiedInputs ==
    LET b == Bounds(Point(1, 1), Size(2, 2))
    IN  {Primitive(k, b, NoTile) : k \in Kinds \ SpriteKinds}
        \cup {Primitive(k, b, t) : k \in SpriteKinds, t \in TiedAtlasTiles}

\* scene.push(primitive): the index answers with any token.
PushTied(primitive) ==
    /\ Scene_len(scene) < MaxPrims
    /\ PushWith(primitive, BoundsTree_any(scene.primitive_bounds))

NextTies ==
    \/ \E primitive \in TiedInputs : PushTied(primitive)
    \/ Finish
    \/ Batches
    \/ IterNext
    \/ Clear

SpecTies == Init /\ [][NextTies]_vars

\* -------------------------------------------------------- path builder
\* A caller that creates one path, draws on it and scales it.

PathCall(op, to, ctrl) == [op |-> op, to |-> to, ctrl |-> ctrl]

\* Path::new(start)
PathNew(start) ==
    /\ path = None
    /\ path' = Some(Path_new(start))
    /\ calls' = <<>>
    /\ start_arg' = Some(start)
    /\ scaled' = None
    /\ UNCHANGED scene_vars
    /\ UNCHANGED prompt_vars

\* The values a caller in the crate gives the pub(crate) fields id,
\* content_mask and color of a path before it draws on it.
PathFields ==
    [id |-> 1, content_mask |-> [bounds |-> Bounds(Point(1, 0), Size(2, 3))],
     color |-> "red"]

\* path.id = ..; path.content_mask = ..; path.color = ..
SetFields ==
    /\ path # None
    /\ calls = <<>>
    /\ unwrap(path).color = Hsla_default
    /\ path' = Some([unwrap(path) EXCEPT !.id = PathFields.id,
                                         !.content_mask = PathFields.content_mask,
                                         !.color = PathFields.color])
    /\ scaled' = None
    /\ UNCHANGED <<calls, start_arg>>
    /\ UNCHANGED scene_vars
    /\ UNCHANGED prompt_vars

\* path.line_to(to)
LineTo(to) ==
    /\ path # None
    /\ Len(calls) < MaxCalls
    /\ path' = Some(Path_line_to(unwrap(path), to))
    /\ calls' = Append(calls, PathCall("line_to", to, None))
    /\ scaled' = None
    /\ UNCHANGED start_arg
    /\ UNCHANGED scene_vars
    /\ UNCHANGED prompt_vars

\* path.curve_to(to, ctrl)
CurveTo(to, ctrl) ==
    /\ path # None
    /\ Len(calls) < MaxCalls
    /\ path' = Some(Path_curve_to(unwrap(path), to, ctrl))
    /\ calls' = Append(calls, PathCall("curve_to", to, Some(ctrl)))
    /\ scaled' = None
    /\ UNCHANGED start_arg
    /\ UNCHANGED scene_vars
    /\ UNCHANGED prompt_vars

\* path.scale(factor): &self, so the receiver is left as it is; the caller
\* keeps the path returned (with the receiver as it was and the factor).
Scale(factor) ==
    /\ path # None
    /\ scaled' = Some([receiver |-> unwrap(path), factor |-> factor,
                       returned |-> Path_scale(unwrap(path), factor)])
    /\ UNCHANGED <<path, calls, start_arg>>
    /\ UNCHANGED scene_vars
    /\ UNCHANGED prompt_vars

NextPath ==
    \/ \E start \in PathStarts : PathNew(start)
    \/ SetFields
    \/ \E to \in PathPoints : LineTo(to)
    \/ \E to, ctrl \in PathPoints : CurveTo(to, ctrl)
    \/ \E factor \in ScaleFactors : Scale(factor)

SpecPath == Init /\ [][NextPath]_vars

\* ------------------------------------------------------ prompt library
\* One library, created by init and then shared by a thread that calls
\* default_prompt() and by the threads Writers, which call the writing
\* operations.

\* The state in the lock.
State == unwrap(library)

\* A call of a writing operation.
WriterCall(op, arg) == [op |-> op, arg |-> arg]

\* The calls the writing threads make.
WriterCalls ==
    {WriterCall("add_prompts_to_default", prompt_ids) : prompt_ids \in IdLists}
    \cup {WriterCall(op, prompt_id) :
            op \in {"add_prompt_to_default", "remove_prompt_from_default"},
            prompt_id \in PromptIds \cup {UnknownId}}

\* PromptLibrary::init(fs), the prompt directory holding the files loaded.
LibraryInit(loaded) ==
    /\ library = None
    /\ library' \in {Some(state) : state \in PromptLibrary_init(loaded)}
    /\ lock' = RwLock_new
    /\ UNCHANGED <<reader, writers, prompt>>
    /\ UNCHANGED scene_vars
    /\ UNCHANGED path_vars

\* default_prompt(): let state = self.state.read()
DefaultPromptRead ==
    /\ library # None
    /\ reader = "idle"
    /\ RwLock_can_read(lock)
    /\ lock' = RwLock_read(lock)
    /\ reader' = "reading"
    /\ UNCHANGED <<library, writers, prompt>>
    /\ UNCHANGED scene_vars
    /\ UNCHANGED path_vars

\* default_prompt(): default_prompts is empty; None is returned and the
\* guard dropped.
DefaultPromptNone ==
    /\ reader = "reading"
    /\ State.default_prompts = <<>>
    /\ prompt' = Some(None)
    /\ lock' = RwLock_drop_read(lock)
    /\ reader' = "idle"
    /\ UNCHANGED <<library, writers>>
    /\ UNCHANGED scene_vars
    /\ UNCHANGED path_vars

\* default_prompt() calls join_default_prompts(): let state =
\* self.state.read(), while the guard of default_prompt is held.
JoinDefaultPromptsRead ==
    /\ reader = "reading"
    /\ State.default_prompts # <<>>
    /\ RwLock_can_read(lock)
    /\ lock' = RwLock_read(lock)
    /\ reader' = "joining"
    /\ UNCHANGED <<library, writers, prompt>>
    /\ UNCHANGED scene_vars
    /\ UNCHANGED path_vars

\* join_default_prompts() returns and drops its guard; default_prompt()
\* returns Some of the string and drops its own.
DefaultPromptSome ==
    /\ reader = "joining"
    /\ prompt' = Some(Some(PromptLibrary_join_default_prompts(State)))
    /\ lock' = RwLock_drop_read(RwLock_drop_read(lock))
    /\ reader' = "idle"
    /\ UNCHANGED <<library, writers>>
    /\ UNCHANGED scene_vars
    /\ UNCHANGED path_vars

\* A writing operation begins: let mut state = self.state.write() takes the
\* writer bit.
Write(thread, call) ==
    /\ library # None
    /\ writers[thread] = None
    /\ State.version < MaxVersion
    /\ RwLock_can_write(lock)
    /\ lock' = RwLock_write(lock, thread)
    /\ writers' = [writers EXCEPT ![thread] = Some(call)]
    /\ UNCHANGED <<library, reader, prompt>>
    /\ UNCHANGED scene_vars
    /\ UNCHANGED path_vars

\* write() has returned to thread, which is in a call of op: the call
\* leaves state in the lock and drops the guard.
Written(thread, op, state) ==
    /\ writers[thread] # None
    /\ unwrap(writers[thread]).op = op
    /\ RwLock_entered(lock, thread)
    /\ library' = Some(state)
    /\ lock' = RwLock_drop_write(lock)
    /\ writers' = [writers EXCEPT ![thread] = None]
    /\ UNCHANGED <<reader, prompt>>
    /\ UNCHANGED scene_vars
    /\ UNCHANGED path_vars

\* add_prompts_to_default(prompt_ids), after write() has returned
AddPromptsToDefault(thread) ==
    Written(thread, "add_prompts_to_default",
            PromptLibrary_add_prompts_to_default(State, unwrap(writers[thread]).arg))

\* add_prompt_to_default(prompt_id), after write() has returned
AddPromptToDefault(thread) ==
    Written(thread, "add_prompt_to_default",
            PromptLibrary_add_prompt_to_default(State, unwrap(writers[thread]).arg))

\* remove_prompt_from_default(prompt_id), after write() has returned
RemovePromptFromDefault(thread) ==
    Written(thread, "remove_prompt_from_default",
            PromptLibrary_remove_prompt_from_default(State,
                                                     unwrap(writers[thread]).arg))

NextPrompts ==
    \/ \E loaded \in SUBSET PromptIds : LibraryInit(loaded)
    \/ DefaultPromptRead
    \/ DefaultPromptNone
    \/ JoinDefaultPromptsRead
    \/ DefaultPromptSome
    \/ \E thread \in Writers, call \in WriterCalls : Write(thread, call)
    \/ \E thread \in Writers : AddPromptsToDefault(thread)
    \/ \E thread \in Writers : AddPromptToDefault(thread)
    \/ \E thread \in Writers : RemovePromptFromDefault(thread)

SpecPrompts == Init /\ [][NextPrompts]_vars

\* The whole scenario is stored.
ScenarioStored =={e.order : e \in scene.primitive_bounds} = ScenarioOrders

\* -------------------------------------------------------------- claims

\* The list of a kind.
ListOf(kind) == scene[ListField(kind)]

\* The batch at position n of the emission covers position i of its list.
Covers(n, kind, i) ==
    /\ emitted[n].kind = kind
    /\ emitted[n].start < i
    /\ i <= emitted[n].end

RECURSIVE EmittedCount(_)
EmittedCount(n) ==
    IF n = 0 THEN 0 ELSE EmittedCount(n - 1) + Len(emitted[n].items)

\* The items of the batches of a kind among the first n, in emission order.
RECURSIVE Concatenated(_, _)
Concatenated(kind, n) ==
    IF n = 0
    THEN <<>>
    ELSE Concatenated(kind, n - 1)
            \o (IF emitted[n].kind = kind THEN emitted[n].items ELSE <<>>)

\* The end of the last batch of a kind among the first n (0 if none).
RECURSIVE LastEnd(_, _)
LastEnd(kind, n) ==
    IF n = 0 THEN 0
    ELSE IF emitted[n].kind = kind THEN emitted[n].end ELSE LastEnd(kind, n - 1)

\* Every cursor of the iterator is at the end of its list.
AllExhausted ==
    \A kind \in Kinds : unwrap(iter)[IterField(kind)] = Len(ListOf(kind))

\* (kind, texture id) of a batch; the texture id of a batch without one is
\* NoTexture.
Discriminator(batch) == <<batch.kind, batch.texture_id>>

\* C1: when batches() has been drained after finish(), the batches hold as
\* many primitives as there were pushes whose clipped bounds had positive
\* width and height, and every stored primitive is in exactly one batch.
C1_DrainCoversSurvivors ==
    pc = "drained" =>
        /\ EmittedCount(Len(emitted)) = survivors
        /\ \A kind \in Kinds : \A i \in DOMAIN ListOf(kind) :
              Cardinality({n \in DOMAIN emitted : Covers(n, kind, i)}) = 1

\* C2: of two emitted batches, no primitive of the later one has a smaller
\* order than a primitive of the earlier one; and when a stored primitive q
\* is emitted, every stored primitive of another kind with a smaller order
\* is in a batch emitted before q's.
C2_BatchesAscend ==
    /\ \A m, n \in DOMAIN emitted :
          m < n =>
            \A i \in DOMAIN emitted[m].items, j \in DOMAIN emitted[n].items :
                emitted[m].items[i].order <= emitted[n].items[j].order
    /\ \A kp, kq \in Kinds :
          kp # kq =>
            \A i \in DOMAIN ListOf(kp), j \in DOMAIN ListOf(kq) :
                ListOf(kp)[i].order < ListOf(kq)[j].order =>
                    \A n \in DOMAIN emitted :
                        Covers(n, kq, j) =>
                            \E m \in 1..(n - 1) : Covers(m, kp, i)

C2_Witness ==
    /\ pc = "drained"
    /\ Len(emitted) = 3
    /\ emitted[1].kind = emitted[3].kind
    /\ emitted[1].kind # emitted[2].kind

\* C3: when batches() has been drained, the batches of each kind, one after
\* the other, are that kind's list as finish() left it: each is the slice
\* that starts where the previous batch of the kind ended, and together
\* they are the whole list.
C3_BatchesConcatenateToList ==
    /\ \A n \in DOMAIN emitted :
          /\ emitted[n].start = LastEnd(emitted[n].kind, n - 1)
          /\ emitted[n].items =
                slice(ListOf(emitted[n].kind), emitted[n].start, emitted[n].end)
    /\ pc = "drained" =>
          \A kind \in Kinds : Concatenated(kind, Len(emitted)) = ListOf(kind)

\* C4: every emitted batch holds primitives of its own kind only, and every
\* sprite batch holds sprites of one texture id, the one the batch reports.
C4_OneKindOneTexture ==
    \A n \in DOMAIN emitted :
        \A i \in DOMAIN emitted[n].items :
            /\ emitted[n].items[i].kind = emitted[n].kind
            /\ emitted[n].kind \in SpriteKinds =>
                  emitted[n].items[i].tile.texture_id = emitted[n].texture_id

C4_Witness ==
    /\ pc = "drained"
    /\ Len(emitted) = 2
    /\ emitted[1].kind \in SpriteKinds
    /\ Len(emitted[1].items) = 2
    /\ emitted[2].kind = emitted[1].kind
    /\ emitted[2].texture_id # emitted[1].texture_id

\* C5: no two batches emitted one right after the other have the same
\* discriminator (kind, and texture id for the sprite kinds).
C5_NoEqualNeighbours ==
    \A n \in DOMAIN emitted :
        n > 1 => Discriminator(emitted[n - 1]) # Discriminator(emitted[n])

C5_Witness ==
    /\ pc = "drained"
    /\ Len(emitted) = 3
    /\ emitted[1].kind = "Quad"
    /\ emitted[2].kind = "Shadow"
    /\ emitted[3].kind = "Quad"

\* C6: a push of a primitive that its content mask leaves no positive width
\* or no positive height changes nothing of the scene (len(), the seven
\* lists, the order index), and no such primitive is in an emitted batch.
C6_DroppedPushIsNoOp ==
    /\ [][last_call'.op = "push_dropped" =>
            /\ Scene_len(scene') = Scene_len(scene)
            /\ \A kind \in Kinds : scene'[ListField(kind)] = ListOf(kind)
            /\ scene'.primitive_bounds = scene.primitive_bounds
            /\ scene' = scene]_vars
    /\ [](\A n \in DOMAIN emitted :
            \A i \in DOMAIN emitted[n].items : survives(emitted[n].items[i]))

C6_Witness ==
    /\ last_call.op = "push_dropped"
    /\ Scene_len(scene) = 2
    /\ pc = "building"

\* C7: right after clear(), whatever was pushed and finished before, the
\* scene is the newly constructed one and no iterator is left, so the
\* calls that follow see what they would see on a new Scene.
C7_ClearedIsNew ==
    last_call.op = "clear" =>
        /\ scene = Scene_default
        /\ Scene_len(scene) = 0
        /\ Scene_paths(scene) = <<>>
        /\ BoundsTree_fresh(scene.primitive_bounds)
              = BoundsTree_fresh(BoundsTree_default)
        /\ iter = None

C7_Witness ==
    /\ last_call = Call("clear", MaxPrims)
    /\ scene = Scene_default

\* C8: every batch next() yields holds at least one primitive, and next()
\* yields None exactly when all seven cursors are exhausted.
C8_NoneIffExhausted ==
    /\ \A n \in DOMAIN emitted : emitted[n].end > emitted[n].start
    /\ pc = "drained" => AllExhausted
    /\ (pc = "draining" /\ AllExhausted) =>
          BatchIterator_next(unwrap(iter), scene).batch = None

\* C9: in the scenario, the drained batches are the sprite batch of the
\* first texture with the sprites of orders 1 and 2, the Quads batch with
\* the quad of order 3, and the sprite batch of the other texture with the
\* sprite of order 4, in this sequence.
C9_ScenarioBatches ==
    (pc = "drained" /\ ScenarioStored) =>
        /\ Len(emitted) >= 3
        /\ emitted[1].kind \in SpriteKinds
        /\ emitted[1].texture_id = emitted[1].items[1].tile.texture_id
        /\ <<emitted[1].start, emitted[1].end>> = <<0, 2>>
        /\ <<emitted[1].items[1].order, emitted[1].items[2].order>> = <<1, 2>>
        /\ emitted[2].kind = "Quad"
        /\ <<emitted[2].start, emitted[2].end>> = <<0, 1>>
        /\ emitted[2].items[1].order = 3
        /\ emitted[3].kind = emitted[1].kind
        /\ emitted[3].texture_id = emitted[3].items[1].tile.texture_id
        /\ emitted[3].texture_id # emitted[1].texture_id
        /\ <<emitted[3].start, emitted[3].end>> = <<2, 3>>
        /\ emitted[3].items[1].order = 4
        /\ \A n \in DOMAIN emitted : n <= 3

C9_Witness ==
    /\ pc = "drained"
    /\ ScenarioStored
    /\ emitted[1].kind = "PolychromeSprite"
    /\ emitted[1].texture_id = "B"

\* C10 as stated: in the scenario, draining yields four batches.
C10_FourBatches == (pc = "drained" /\ ScenarioStored) => Len(emitted) = 4

\* C10, amended: in the scenario, draining yields three batches.
C10_ThreeBatches == (pc = "drained" /\ ScenarioStored) => Len(emitted) = 3

C10_Witness ==
    /\ pc = "drained"
    /\ ScenarioStored
    /\ Len(emitted) = 3
    /\ emitted[1].kind = "MonochromeSprite"
    /\ scene.primitives[1].kind = "Quad"

\* ------------------------------------------------- claims on the path

\* The three vertices of a triangle as the claims describe them.
Triangle(a, b, c, sa, sb, sc) ==
    <<[xy_position |-> a, st_position |-> sa, content_mask |-> ContentMask_default],
      [xy_position |-> b, st_position |-> sb, content_mask |-> ContentMask_default],
      [xy_position |-> c, st_position |-> sc, content_mask |-> ContentMask_default]>>

\* The point the path is at before call n.
CurrentBefore(start, n) == IF n = 1 THEN start ELSE calls[n - 1].to

\* The vertices the first n calls are to emit: no fan triangle for the first
\* call, one fan triangle for every later call, and after it one curve
\* triangle for every curve_to.
RECURSIVE ExpectedVertices(_, _)
ExpectedVertices(start, n) ==
    IF n = 0
    THEN <<>>
    ELSE LET call == calls[n]
             current == CurrentBefore(start, n)
             fan == IF n = 1
                    THEN <<>>
                    ELSE Triangle(start, current, call.to,
                                  Point(0, StOne), Point(0, StOne), Point(0, StOne))
             curve == IF call.op = "curve_to"
                      THEN Triangle(current, unwrap(call.ctrl), call.to,
                                    Point(0, 0), Point(StOne \div 2, 0),
                                    Point(StOne, StOne))
                      ELSE <<>>
         IN  ExpectedVertices(start, n - 1) \o fan \o curve

CurveToCalls == Cardinality({n \in DOMAIN calls : calls[n].op = "curve_to"})

\* C11: after any sequence of line_to and curve_to calls the vertices of the
\* path are, call by call: nothing for the first call if it is a line_to,
\* one fan triangle (start, current, to) with the st (0,1) three times for
\* every later call, and for every curve_to, after its fan triangle if it
\* has one, the triangle (current, ctrl, to) with the st (0,0), (0.5,0),
\* (1,1); so there are 3 * (max(calls - 1, 0) + curve_to calls) vertices.
C11_TrianglesPerCall ==
    path # None =>
        /\ unwrap(path).vertices = ExpectedVertices(unwrap(path).start, Len(calls))
        /\ Len(unwrap(path).vertices)
              = 3 * (Max(Len(calls) - 1, 0) + CurveToCalls)

C11_Witness ==
    /\ path # None
    /\ Len(calls) = 3
    /\ calls[1].op = "curve_to"
    /\ calls[2].op = "line_to"
    /\ calls[3].op = "curve_to"
    /\ Len(unwrap(path).vertices) = 12

\* ---------------------------------------------- claims on the batches

\* The same discriminator: the same kind, and for sprites the same texture.
SameDiscriminator(p, q) ==
    /\ p.kind = q.kind
    /\ p.kind \in SpriteKinds => p.tile.texture_id = q.tile.texture_id

\* grouping puts the stored primitives (by their place in scene.primitives)
\* into the batches 1..k of a sequence that satisfies (a), (b) and (c): a
\* batch holds one kind and, for sprites, one texture id, and no primitive
\* of a later batch has a smaller order than one of an earlier batch.
ValidGrouping(grouping, k) ==
    LET stored == scene.primitives
    IN  /\ {grouping[i] : i \in DOMAIN stored} = 1..k
        /\ \A i, j \in DOMAIN stored :
              /\ grouping[i] = grouping[j] => SameDiscriminator(stored[i], stored[j])
              /\ grouping[i] < grouping[j] => stored[i].order <= stored[j].order

\* The fewest batches of any sequence that satisfies (a), (b) and (c).
MinBatches ==
    LET stored == scene.primitives
        counts == {k \in 0..Len(stored) :
                      \E grouping \in [DOMAIN stored -> 1..Len(stored)] :
                          ValidGrouping(grouping, k)}
    IN  CHOOSE k \in counts : \A other \in counts : k <= other

\* C12: when batches() has been drained after finish(), the batches are a
\* partition of the stored primitives (each is in exactly one batch) that
\* satisfies (a) one kind per batch, (b) one texture id per sprite batch and
\* (c) non-decreasing order across batches, and no sequence of batches over
\* the stored primitives that satisfies (a), (b) and (c) has fewer batches.
C12_CoarsestPartition ==
    pc = "drained" =>
        /\ \A kind \in Kinds : \A i \in DOMAIN ListOf(kind) :
              Cardinality({n \in DOMAIN emitted : Covers(n, kind, i)}) = 1
        /\ \A n \in DOMAIN emitted : \A i, j \in DOMAIN emitted[n].items :
              SameDiscriminator(emitted[n].items[i], emitted[n].items[j])
        /\ \A m, n \in DOMAIN emitted :
              m < n =>
                \A i \in DOMAIN emitted[m].items, j \in DOMAIN emitted[n].items :
                    emitted[m].items[i].order <= emitted[n].items[j].order
        /\ Len(emitted) = MinBatches

\* The kind priority as the claim gives it.
Priority(kind) ==
    CASE kind = "Shadow" -> 1
      [] kind = "Quad" -> 2
      [] kind = "Path" -> 3
      [] kind = "Underline" -> 4
      [] kind = "MonochromeSprite" -> 5
      [] kind = "PolychromeSprite" -> 6
      [] kind = "Surface" -> 7

\* C13: when primitives of several kinds have the same order, the batch with
\* the one of the kind that comes first in Shadow < Quad < Path < Underline
\* < MonochromeSprite < PolychromeSprite < Surface is yielded first, and
\* every primitive of that kind with that order has been yielded before a
\* batch of a later kind with a primitive of that order starts.
C13_TiesByKindPriority ==
    /\ \A m, n \in DOMAIN emitted :
          \A i \in DOMAIN emitted[m].items, j \in DOMAIN emitted[n].items :
              (/\ emitted[m].items[i].order = emitted[n].items[j].order
               /\ Priority(emitted[m].kind) < Priority(emitted[n].kind))
                  => m < n
    /\ \A n \in DOMAIN emitted : \A j \in DOMAIN emitted[n].items :
          \A kind \in Kinds : \A i \in DOMAIN ListOf(kind) :
              (/\ ListOf(kind)[i].order = emitted[n].items[j].order
               /\ Priority(kind) < Priority(emitted[n].kind))
                  => \E m \in 1..(n - 1) : Covers(m, kind, i)

C13_Witness ==
    /\ pc = "drained"
    /\ Len(emitted) = 2
    /\ emitted[1].kind = "Quad"
    /\ Len(emitted[1].items) = 2
    /\ emitted[2].kind = "Path"
    /\ \A i \in DOMAIN emitted[1].items :
          emitted[1].items[i].order = emitted[2].items[1].order

\* ------------------------------------------------- claims on the store

\* Every primitive in a kind list or in a yielded batch.
StoredOrYielded ==
    UNION {{ListOf(kind)[i] : i \in DOMAIN ListOf(kind)} : kind \in Kinds}
    \cup UNION {{emitted[n].items[i] : i \in DOMAIN emitted[n].items} :
                    n \in DOMAIN emitted}

\* The box inner lies within the box outer.
Within(inner, outer) ==
    /\ outer.origin.x <= inner.origin.x
    /\ outer.origin.y <= inner.origin.y
    /\ lower_right(inner).x <= lower_right(outer).x
    /\ lower_right(inner).y <= lower_right(outer).y

\* The primitive the last call, a push that was stored, put at the end of
\* scene.primitives.
LastStored == scene.primitives[Len(scene.primitives)]

\* C14 as stated: the bounds of a stored primitive are the submitted bounds
\* cut by the content mask, so they lie within the content mask.
C14_StoredBoundsClipped ==
    /\ last_call.op = "push" =>
          LastStored.bounds
              = intersect(unwrap(submitted).bounds,
                          unwrap(submitted).content_mask.bounds)
    /\ \A primitive \in StoredOrYielded :
          Within(primitive.bounds, primitive.content_mask.bounds)

\* C14, amended: the bounds (and the content mask) of a stored primitive are
\* the submitted ones, unchanged; what they have in common with the content
\* mask has positive width and height.
C14_StoredBoundsAsSubmitted ==
    /\ last_call.op = "push" =>
          /\ LastStored.bounds = unwrap(submitted).bounds
          /\ LastStored.content_mask = unwrap(submitted).content_mask
          /\ ListOf(LastStored.kind)[Len(ListOf(LastStored.kind))] = LastStored
    /\ \A primitive \in StoredOrYielded :
          LET common == intersect(primitive.bounds, primitive.content_mask.bounds)
          IN  common.size.width > 0 /\ common.size.height > 0

C14_Witness ==
    /\ last_call.op = "push"
    /\ Scene_len(scene) = 2
    /\ ~Within(LastStored.bounds, LastStored.content_mask.bounds)
    /\ LastStored.bounds = unwrap(submitted).bounds

\* p with every coordinate multiplied by factor.
Times(p, factor) == [x |-> p.x * factor, y |-> p.y * factor]

\* C15: scale(factor) leaves the receiver as it is and returns a path with
\* as many vertices, the same contour_count, color, id and order, whose
\* vertex positions, start, current, bounds and content mask are the
\* receiver's multiplied by factor and whose vertex st are the receiver's.
C15_ScaleReturnsScaledCopy ==
    scaled # None =>
        LET receiver == unwrap(scaled).receiver
            factor == unwrap(scaled).factor
            returned == unwrap(scaled).returned
        IN  /\ path = Some(receiver)
            /\ Len(returned.vertices) = Len(receiver.vertices)
            /\ returned.contour_count = receiver.contour_count
            /\ returned.color = receiver.color
            /\ returned.id = receiver.id
            /\ returned.order = receiver.order
            /\ \A i \in DOMAIN receiver.vertices :
                  /\ returned.vertices[i].xy_position
                        = Times(receiver.vertices[i].xy_position, factor)
                  /\ returned.vertices[i].st_position
                        = receiver.vertices[i].st_position
            /\ returned.start = Times(receiver.start, factor)
            /\ returned.current = Times(receiver.current, factor)
            /\ returned.bounds.origin = Times(receiver.bounds.origin, factor)
            /\ returned.bounds.size.width = receiver.bounds.size.width * factor
            /\ returned.bounds.size.height = receiver.bounds.size.height * factor
            /\ returned.content_mask.bounds.origin
                  = Times(receiver.content_mask.bounds.origin, factor)
            /\ returned.content_mask.bounds.size.width
                  = receiver.content_mask.bounds.size.width * factor
            /\ returned.content_mask.bounds.size.height
                  = receiver.content_mask.bounds.size.height * factor

C15_Witness ==
    /\ scaled # None
    /\ unwrap(scaled).factor = 3
    /\ unwrap(scaled).receiver.color = "red"
    /\ Len(unwrap(scaled).returned.vertices) = 9
    /\ unwrap(scaled).returned.bounds.size.width = 6
    /\ unwrap(scaled).returned.content_mask.bounds.size.height = 9

\* finish() was called after the last push that was stored.
Finished == pc \in {"finished", "draining", "drained"}

\* C16: after finish(), in each of the two sprite lists, sprites of the same
\* order that have the same texture id are next to each other: no sprite of
\* another texture id lies between them.
C16_EqualOrderSpritesByTexture ==
    Finished =>
        \A kind \in SpriteKinds :
            \A i, j, k \in DOMAIN ListOf(kind) :
                (/\ i < j /\ j < k
                 /\ ListOf(kind)[i].order = ListOf(kind)[k].order
                 /\ ListOf(kind)[i].tile.texture_id = ListOf(kind)[k].tile.texture_id)
                    => ListOf(kind)[j].tile.texture_id
                          = ListOf(kind)[i].tile.texture_id

\* The paths in scene.primitives, in the sequence they were pushed.
PushedPaths == SelectSeq(scene.primitives, LAMBDA primitive : primitive.kind = "Path")

\* C17: the id push gives a path is the number of paths stored before it in
\* the frame, so the ids of the n stored paths are pairwise distinct and are
\* exactly 0..n-1, before and after finish() (which moves paths and leaves
\* their ids), and after clear() the numbering starts at 0 again.
C17_PathIdsDense ==
    LET paths == Scene_paths(scene)
    IN  /\ \A k \in DOMAIN PushedPaths : PushedPaths[k].id = k - 1
        /\ Len(paths) = Len(PushedPaths)
        /\ {paths[i] : i \in DOMAIN paths}
              = {PushedPaths[k] : k \in DOMAIN PushedPaths}
        /\ {paths[i].id : i \in DOMAIN paths} = 0..(Len(paths) - 1)
        /\ \A i, j \in DOMAIN paths : i # j => paths[i].id # paths[j].id
        /\ last_call.op = "clear" => paths = <<>>
        /\ (last_call.op = "push" /\ LastStored.kind = "Path") =>
              LastStored.id = Len(paths) - 1

\* finish() has moved the path pushed second to the front.
C17_Witness ==
    /\ pc = "finished"
    /\ Len(Scene_paths(scene)) = 3
    /\ Scene_paths(scene)[1].id = 1
    /\ Scene_paths(scene)[3].id = 0

\* C18: a push that survives clipping appends one element at the end of the
\* list of the primitive's kind, whose contents before the call stay as a
\* prefix, leaves the six other kind lists as they are, and raises len() by
\* one.
C18_PushAppendsToOneList ==
    [][last_call'.op = "push" =>
        LET primitive == unwrap(submitted')
            before == ListOf(primitive.kind)
            after == scene'[ListField(primitive.kind)]
        IN  /\ Len(after) = Len(before) + 1
            /\ SubSeq(after, 1, Len(before)) = before
            /\ after[Len(after)].kind = primitive.kind
            /\ after[Len(after)].tile = primitive.tile
            /\ \A kind \in Kinds \ {primitive.kind} :
                  scene'[ListField(kind)] = ListOf(kind)
            /\ Scene_len(scene') = Scene_len(scene) + 1]_vars

\* A push onto a list that held two elements.
C18_Witness ==
    /\ last_call.op = "push"
    /\ Scene_len(scene) = 3
    /\ Len(ListOf(unwrap(submitted).kind)) = 3
    /\ unwrap(submitted).kind = "PolychromeSprite"

\* The primitives of a kind list, as a set.
Stored(s, kind) == {s[ListField(kind)][i] : i \in DOMAIN s[ListField(kind)]}

\* C19: a push that survives clipping asks the order index for one token,
\* for the clipped bounds and not the submitted ones, and the order of the
\* stored primitive is that token whatever order the caller had put in the
\* primitive; finish(), batches(), next() and later pushes leave every
\* stored primitive with the order it has.
C19_OrderIsTheToken ==
    [][/\ last_call'.op = "push" =>
            LET primitive == unwrap(submitted')
                stored == scene'.primitives[Len(scene'.primitives)]
                clipped == intersect(primitive.bounds, primitive.content_mask.bounds)
                asked == scene'.primitive_bounds \ scene.primitive_bounds
            IN  /\ asked = {[bounds |-> clipped, order |-> stored.order]}
                /\ clipped # primitive.bounds
                /\ stored \in Stored(scene', primitive.kind)
       /\ last_call'.op # "clear" =>
            /\ \A kind \in Kinds : Stored(scene, kind) \subseteq Stored(scene', kind)
            /\ \A i \in DOMAIN scene.primitives :
                  scene'.primitives[i] = scene.primitives[i]
       /\ last_call'.op \notin {"clear", "push"} =>
            scene'.primitive_bounds = scene.primitive_bounds]_vars

\* The caller had put the order 1 in the primitive and the token is 2.
C19_Witness ==
    /\ last_call.op = "push"
    /\ Scene_len(scene) = 2
    /\ unwrap(submitted).order = 1
    /\ LastStored.order = 2
    /\ LastStored \in Stored(scene, "Underline")

\* The batches that draining batches() on the scene s yields: next() called
\* on the iterator it until it answers None, at most n times.
RECURSIVE Drain(_, _, _)
Drain(it, s, n) ==
    LET result == BatchIterator_next(it, s)
    IN  IF n = 0 \/ result.batch = None
        THEN <<>>
        ELSE <<unwrap(result.batch)>> \o Drain(result.it, s, n - 1)

\* How many times x is in list.
Count(list, x) == Cardinality({i \in DOMAIN list : list[i] = x})

\* No element of list comes before an element of lower order.
AscendingByOrder(list) ==
    \A i, j \in DOMAIN list : i < j => list[i].order <= list[j].order

\* C20: finish() leaves each of the seven kind lists a permutation of what it
\* held, ascending by order whatever the texture ids, and leaves len() as it
\* was; on lists that are ascending already it changes nothing of what
\* batches() yields.
C20_FinishSortsByOrder ==
    [][last_call'.op = "finish" =>
        /\ \A kind \in Kinds :
              LET before == ListOf(kind)
                  after == scene'[ListField(kind)]
              IN  /\ Len(after) = Len(before)
                  /\ \A i \in DOMAIN before :
                        Count(after, before[i]) = Count(before, before[i])
                  /\ AscendingByOrder(after)
        /\ Scene_len(scene') = Scene_len(scene)
        /\ (\A kind \in Kinds : AscendingByOrder(ListOf(kind))) =>
              Drain(Scene_batches(scene'), scene', Scene_len(scene'))
                  = Drain(Scene_batches(scene), scene, Scene_len(scene))]_vars

\* finish() has put the sprite pushed second before the sprite pushed first,
\* against their tile ids.
C20_Witness ==
    /\ last_call.op = "finish"
    /\ Len(scene.monochrome_sprites) = 2
    /\ scene.monochrome_sprites[1] = scene.primitives[Len(scene.primitives)]
    /\ scene.monochrome_sprites[1].order < scene.monochrome_sprites[2].order
    /\ scene.monochrome_sprites[1].tile.tile_id
          > scene.monochrome_sprites[2].tile.tile_id

\* ------------------------------------------------ claims on the ceiling

\* The (head order, kind) pair of a kind whose cursor has passed pos
\* elements; an empty cursor counts as the largest order.
HeadPair(kind, pos) ==
    IF pos < Len(ListOf(kind))
    THEN <<ListOf(kind)[pos + 1].order, kind>>
    ELSE <<U32_MAX, kind>>

\* The pair a is smaller than the pair b: by order, then by kind priority.
PairBelow(a, b) ==
    \/ a[1] < b[1]
    \/ a[1] = b[1] /\ Priority(a[2]) < Priority(b[2])

\* The ceiling of the call of next() that yielded batch n: the second
\* smallest of the seven head pairs, every cursor standing where the
\* batches yielded before n left it.
CeilingAt(n) ==
    LET pairs == {HeadPair(kind, LastEnd(kind, n - 1)) : kind \in Kinds}
    IN  CHOOSE p \in pairs : Cardinality({q \in pairs : PairBelow(q, p)}) = 1

\* The element after batch n in the list of its kind is there and is below
\* the ceiling of the call that yielded batch n.
NextBelowCeiling(n) ==
    LET batch == emitted[n]
        list == ListOf(batch.kind)
    IN  /\ batch.end < Len(list)
        /\ PairBelow(<<list[batch.end + 1].order, batch.kind>>, CeilingAt(n))

\* C21: when a sprite batch is ended by a change of the texture id while the
\* next sprite of the list is below the ceiling, that sprite is not in the
\* batch that ends, it is still the head of its cursor, and the batch
\* yielded next is of the same sprite kind and begins with that sprite.
C21_TextureChangeBeginsNextBatch ==
    \A n \in DOMAIN emitted :
        LET batch == emitted[n]
            list == ListOf(batch.kind)
        IN  (/\ batch.kind \in SpriteKinds
             /\ NextBelowCeiling(n)
             /\ list[batch.end + 1].tile.texture_id # batch.texture_id)
                => /\ ~Covers(n, batch.kind, batch.end + 1)
                   /\ \A i \in DOMAIN batch.items :
                         batch.items[i].tile.texture_id = batch.texture_id
                   /\ IF n < Len(emitted)
                      THEN /\ emitted[n + 1].kind = batch.kind
                           /\ emitted[n + 1].start = batch.end
                           /\ emitted[n + 1].items[1] = list[batch.end + 1]
                           /\ emitted[n + 1].texture_id
                                 = list[batch.end + 1].tile.texture_id
                      ELSE /\ pc = "draining"
                           /\ peek(unwrap(iter), scene, batch.kind)
                                 = Some(list[batch.end + 1])

\* Two sprites of two textures below a quad: two sprite batches, then the
\* quad.
C21_Witness ==
    /\ pc = "drained"
    /\ Len(emitted) = 3
    /\ emitted[1].kind = "MonochromeSprite"
    /\ NextBelowCeiling(1)
    /\ emitted[2].kind = "MonochromeSprite"
    /\ emitted[2].texture_id # emitted[1].texture_id
    /\ emitted[3].kind = "Quad"

\* The cursors stand where the batches yielded so far left them.
CursorsAtLastEnd ==
    iter # None =>
        \A kind \in Kinds :
            unwrap(iter)[IterField(kind)] = LastEnd(kind, Len(emitted))

\* C22 as stated: a batch holds consecutive elements of its kind exactly
\* while their (order, kind) is below the ceiling, the second smallest of
\* the seven head pairs with an empty cursor counted as the largest order;
\* the first element at or above the ceiling stays at the head of its
\* cursor.
C22_ExactlyWhileBelowCeiling ==
    /\ \A n \in DOMAIN emitted :
          LET batch == emitted[n]
              list == ListOf(batch.kind)
          IN  /\ \A i \in (batch.start + 1)..batch.end :
                    PairBelow(<<list[i].order, batch.kind>>, CeilingAt(n))
              /\ ~NextBelowCeiling(n)
    /\ CursorsAtLastEnd

\* C22, amended: a batch holds consecutive elements of its kind exactly
\* while their (order, kind) is below the ceiling and, for the two sprite
\* kinds, their texture id is that of the first element of the batch; the
\* first element at or above the ceiling, or of another texture id, stays
\* at the head of its cursor.
C22_WhileBelowCeilingAndSameTexture ==
    /\ \A n \in DOMAIN emitted :
          LET batch == emitted[n]
              list == ListOf(batch.kind)
          IN  /\ batch.end > batch.start
              /\ \A i \in (batch.start + 1)..batch.end :
                    /\ PairBelow(<<list[i].order, batch.kind>>, CeilingAt(n))
                    /\ batch.kind \in SpriteKinds =>
                          list[i].tile.texture_id
                              = list[batch.start + 1].tile.texture_id
              /\ NextBelowCeiling(n) =>
                    /\ batch.kind \in SpriteKinds
                    /\ list[batch.end + 1].tile.texture_id
                          # list[batch.start + 1].tile.texture_id
    /\ CursorsAtLastEnd

\* A surface is yielded alone: the second surface is above the head of the
\* shadows and stays at the head of its cursor.
C22_Witness ==
    /\ pc = "draining"
    /\ Len(emitted) = 1
    /\ emitted[1].kind = "Surface"
    /\ emitted[1].end = 1
    /\ Len(scene.surfaces) = 2
    /\ Len(scene.shadows) = 1
    /\ CeilingAt(1) = <<scene.shadows[1].order, "Shadow">>
    /\ unwrap(peek(unwrap(iter), scene, "Surface")).order > scene.shadows[1].order

\* ---------------------------------------------- claims on clear and len

\* C23: after clear(), whatever was pushed or finished before, len() is 0,
\* paths() is empty, the seven kind lists are empty, the order index is
\* empty (it hands out every token again) and batches() yields no batch:
\* the first call of next() answers None, and a frame in which nothing is
\* stored after clear() yields nothing when it is drained.
C23_ClearEmptiesEverything ==
    /\ [][last_call'.op = "clear" =>
            /\ Scene_len(scene') = 0
            /\ Scene_paths(scene') = <<>>
            /\ \A kind \in Kinds : scene'[ListField(kind)] = <<>>
            /\ scene'.primitive_bounds = BoundsTree_default
            /\ BoundsTree_fresh(scene'.primitive_bounds)
                  = (0..MaxOrder) \cup {U32_MAX}
            /\ BatchIterator_next(Scene_batches(scene'), scene').batch = None
            /\ Drain(Scene_batches(scene'), scene', 1) = <<>>]_vars
    /\ []((survivors = 0 /\ pc \in {"draining", "drained"}) => emitted = <<>>)

\* clear() on a scene that held two primitives: the index hands out the
\* largest token again.
C23_Witness ==
    /\ last_call = Call("clear", MaxPrims - 1)
    /\ Scene_len(scene) = 0
    /\ U32_MAX \in BoundsTree_fresh(scene.primitive_bounds)
    /\ survivors = 0

\* The sum of the lengths of the seven kind lists of s.
RECURSIVE SumOfLists(_, _)
SumOfLists(s, n) ==
    IF n = 0 THEN 0
    ELSE SumOfLists(s, n - 1) + Len(s[ListField(PrimitiveKind[n])])

\* C24: in every state reached by push, finish and clear, len() is the sum
\* of the lengths of the seven kind lists (and the number of pushes that
\* survived clipping since the last clear()), and paths() has as many
\* elements as Path primitives survived clipping since the last clear(): a
\* push of a Path that survives adds one, clear() leaves none, and every
\* other call leaves the number as it is.
C24_LenIsSumOfLists ==
    /\ [](/\ Scene_len(scene) = SumOfLists(scene, Len(PrimitiveKind))
          /\ Scene_len(scene) = survivors)
    /\ [][Len(Scene_paths(scene')) =
            IF last_call'.op = "clear" THEN 0
            ELSE IF last_call'.op = "push" /\ unwrap(submitted').kind = "Path"
                 THEN Len(Scene_paths(scene)) + 1
                 ELSE Len(Scene_paths(scene))]_vars

\* Two paths and a quad stored, a path pushed last.
C24_Witness ==
    /\ last_call.op = "push"
    /\ unwrap(submitted).kind = "Path"
    /\ Len(Scene_paths(scene)) = 2
    /\ Len(scene.quads) = 1
    /\ Scene_len(scene) = 3

\* ------------------------------------- claims on the state of the path

\* The smallest and the largest of a set of integers.
Least(values) == CHOOSE v \in values : \A w \in values : v <= w

Greatest(values) == CHOOSE v \in values : \A w \in values : v >= w

\* The union of the zero-size boxes at the points: the smallest box that
\* holds them all.
BoxOfPoints(points) ==
    LET xs == {p.x : p \in points}
        ys == {p.y : p \in points}
    IN  [origin |-> [x |-> Least(xs), y |-> Least(ys)],
         size |-> [width |-> Greatest(xs) - Least(xs),
                   height |-> Greatest(ys) - Least(ys)]]

\* The point lies in the box, its edges included.
Holds(box, p) ==
    /\ box.origin.x <= p.x /\ p.x <= box.origin.x + box.size.width
    /\ box.origin.y <= p.y /\ p.y <= box.origin.y + box.size.height

\* The positions of the vertices of a path.
VertexPositions(p) == {p.vertices[i].xy_position : i \in DOMAIN p.vertices}

\* C25: after any sequence of line_to and curve_to calls on a path created
\* at start, the bounds of the path are the union of the zero-size box at
\* start with the zero-size boxes at the positions of all its vertices; so
\* they hold every vertex, no call makes them smaller, and after a single
\* line_to they are still the zero-size box at start.
C25_BoundsAreUnionOfVertices ==
    /\ [](path # None =>
            LET p == unwrap(path)
                start == unwrap(start_arg)
            IN  /\ p.bounds = BoxOfPoints({start} \cup VertexPositions(p))
                /\ \A v \in VertexPositions(p) : Holds(p.bounds, v)
                /\ Holds(p.bounds, start)
                /\ (Len(calls) = 1 /\ calls[1].op = "line_to") =>
                      p.bounds = [origin |-> start,
                                  size |-> [width |-> 0, height |-> 0]])
    /\ [][(path # None /\ path' # None) =>
            /\ Holds(unwrap(path').bounds, unwrap(path).bounds.origin)
            /\ Holds(unwrap(path').bounds,
                     [x |-> unwrap(path).bounds.origin.x
                                + unwrap(path).bounds.size.width,
                      y |-> unwrap(path).bounds.origin.y
                                + unwrap(path).bounds.size.height])]_vars

\* A path from (2,1): a line to (1,3) that leaves the bounds as they are,
\* then a line to (0,0) that makes them the box of the three points.
C25_Witness ==
    /\ path # None
    /\ Len(calls) = 2
    /\ calls[1] = PathCall("line_to", Point(1, 3), None)
    /\ calls[2] = PathCall("line_to", Point(0, 0), None)
    /\ unwrap(path).start = Point(2, 1)
    /\ unwrap(path).bounds = Bounds(Point(0, 0), Size(2, 3))

\* C26: for any sequence of line_to and curve_to calls on a path, start is
\* the point given at creation, current is the to of the last call (start
\* if there was none), and contour_count is the number of line_to and
\* curve_to calls made.
C26_StartCurrentContourCount ==
    path # None =>
        LET p == unwrap(path)
        IN  /\ p.start = unwrap(start_arg)
            /\ p.current = IF calls = <<>>
                           THEN unwrap(start_arg)
                           ELSE calls[Len(calls)].to
            /\ p.contour_count = Len(calls)
            /\ p.contour_count
                  = Cardinality({n \in DOMAIN calls : calls[n].op = "line_to"})
                        + CurveToCalls

C26_Witness ==
    /\ path # None
    /\ Len(calls) = 3
    /\ calls[1].op = "line_to"
    /\ calls[2].op = "curve_to"
    /\ calls[3].op = "line_to"
    /\ unwrap(path).contour_count = 3
    /\ unwrap(path).current = Point(1, 3)
    /\ unwrap(path).start = Point(2, 1)

\* ------------------------------------------ claims on the start indices

\* C29: in every state of a BatchIterator the start index of each kind is
\* the number of elements its cursor has passed; so every slice yielded is
\* not empty, lies within the list of its kind, and begins with the element
\* that was the head of the cursor when next() was called.
C29_StartIsConsumedCount ==
    /\ [](iter # None =>
            \A kind \in Kinds :
                unwrap(iter)[StartField(kind)] = unwrap(iter)[IterField(kind)])
    /\ [](\A n \in DOMAIN emitted :
            /\ emitted[n].start < emitted[n].end
            /\ emitted[n].end <= Len(ListOf(emitted[n].kind))
            /\ Len(emitted[n].items) = emitted[n].end - emitted[n].start
            /\ \A i \in DOMAIN emitted[n].items :
                  emitted[n].items[i] = ListOf(emitted[n].kind)[emitted[n].start + i])
    /\ [][(last_call'.op = "next" /\ Len(emitted') > Len(emitted)) =>
            LET batch == emitted'[Len(emitted')]
            IN  /\ peek(unwrap(iter), scene, batch.kind) = Some(batch.items[1])
                /\ batch.start = unwrap(iter)[IterField(batch.kind)]
                /\ batch.end = unwrap(iter')[IterField(batch.kind)]]_vars

\* The second batch of a list of three sprites: it starts at index 1, and
\* the start index and the cursor stand at 2 after it.
C29_Witness ==
    /\ pc = "draining"
    /\ Len(emitted) = 2
    /\ emitted[2].kind = "PolychromeSprite"
    /\ emitted[2].start = 1
    /\ Len(scene.polychrome_sprites) = 3
    /\ unwrap(iter).polychrome_sprites_start = 2
    /\ unwrap(iter).polychrome_sprites_iter = 2

\* ------------------------------------------ claims on the prompt library

\* C27: in every state reached by init and then any calls of
\* add_prompt_to_default, add_prompts_to_default (with any list of ids, also
\* one that repeats an id) and remove_prompt_from_default, default_prompts
\* holds no id twice and holds only ids that are keys of prompts.
C27_DefaultsUniqueAndKnown ==
    library # None =>
        LET defaults == State.default_prompts
        IN  /\ \A i, j \in DOMAIN defaults : i # j => defaults[i] # defaults[j]
            /\ \A i \in DOMAIN defaults : defaults[i] \in DOMAIN State.prompts

\* The thread in default_prompt() waits for the read lock of
\* join_default_prompts while it holds the read lock of default_prompt.
ReaderWaits ==
    /\ reader = "reading"
    /\ State.default_prompts # <<>>
    /\ ~RwLock_can_read(lock)

\* thread waits in write() for the readers to leave.
WriterWaits(thread) ==
    /\ writers[thread] # None
    /\ lock.writer = Some(thread)
    /\ lock.readers > 0

\* C28: a thread that calls default_prompt() while other threads call the
\* writing operations always completes: no state is reached in which
\* default_prompt(), holding the read lock, waits to take it again in
\* join_default_prompts while a writer waits for the write lock, each
\* waiting for the other.
C28_DefaultPromptCompletes ==
    ~(ReaderWaits /\ \E thread \in Writers : WriterWaits(thread))

====
